---- MODULE Spec2Model ----
(***************************************************************************)
(* Conversation-flow reconstruction of the Strands/Streamlit chat page     *)
(* (src/app.py): the callback that folds the agent's event stream into the *)
(* per-turn buffers of st.session_state, the chat-input handler that       *)
(* resets the buffers, invokes the agent and stores the assistant turn,    *)
(* the clear-history button and the replay loop that renders the stored    *)
(* transcript on every script run.                                         *)
(*                                                                         *)
(* Python dicts are records: `"k" in d` is "k" \in DOMAIN d, d["k"] is     *)
(* d.k and raises KeyError when the key is missing.  Python lists are      *)
(* sequences, str is a TLA+ string ("" is falsy), None is NoneVal.         *)
(* Every list stored in a turn is a .copy() and every reset rebinds the    *)
(* buffer to a new [] (lines 256-261, 279-287), and no list element is     *)
(* mutated after it is built, so no two lists alias and value semantics    *)
(* are exact.  Emoji of the badge texts are left out of the strings.       *)
(*                                                                         *)
(* Submissions are modelled without uploaded files: the upload branch      *)
(* (lines 228-242, 292-293) writes the disk, the prompt sent to the agent  *)
(* and file_uploader_key, none of which the flow logic reads.              *)
(***************************************************************************)
EXTENDS Naturals, Sequences, FiniteSets, TLC

VARIABLES
    session_state,  \* st.session_state: messages and the per-turn buffers
    pc,             \* "idle": between script runs; "agent": inside agent(full_prompt)
    bubble,         \* what the current run wrote into its assistant chat bubble
    screen,         \* what the replay loop of the current run wrote
    hist            \* history of the session (observation only, read by no action guard
                    \* except the counters that bound the run)

vars == <<session_state, pc, bubble, screen, hist>>

(***************************************************************************)
(* Bounds of the exploration.                                              *)
(***************************************************************************)
\* callbacks delivered over the whole session
MaxEvents == 2
\* chat-input submissions over the whole session
MaxSubmits == 2

NoneVal == "None"

(***************************************************************************)
(* The events the agent may deliver (kwargs of callback_handler).          *)
(***************************************************************************)
DataChunks == {"", "Let me check ", "that."}

GoodToolUse ==
    [name |-> "calculator", input |-> [expression |-> "2+2"], toolUseId |-> "t1"]
\* a toolUse element without its name
BadToolUse == [input |-> [expression |-> "2+2"], toolUseId |-> "t2"]

OkResult ==
    [toolUseId |-> "t1", status |-> "success", content |-> <<[text |-> "4"]>>]
ErrResult ==
    [toolUseId |-> "t1", status |-> "error", content |-> <<[json |-> [error |-> "boom"]]>>]
\* a toolResult element with neither status nor content
BareResult == [toolUseId |-> "t1"]

TextElement == [text |-> "Let me check that."]
\* an element with both keys: the text branch takes it
TextAndToolUse == [text |-> "Calling.", toolUse |-> GoodToolUse]

\* content lists of assistant messages
AssistantContents ==
    { <<>>,
      <<TextElement>>,
      <<[toolUse |-> GoodToolUse]>>,
      <<TextElement, [toolUse |-> GoodToolUse]>>,
      <<[toolUse |-> GoodToolUse], TextElement>>,
      <<[toolUse |-> BadToolUse]>>,
      <<TextElement, [toolUse |-> BadToolUse], [toolUse |-> GoodToolUse]>>,
      <<TextAndToolUse>>,
      <<[toolResult |-> OkResult]>> }

\* content lists of user messages (tool-result echoes)
UserContents ==
    { <<[toolResult |-> OkResult]>>,
      <<[toolResult |-> ErrResult]>>,
      <<[toolResult |-> BareResult]>>,
      <<[toolResult |-> OkResult], [toolResult |-> ErrResult]>>,
      <<TextElement, [toolResult |-> OkResult]>> }

Messages ==
    { [role |-> "assistant", content |-> c] : c \in AssistantContents }
    \cup { [role |-> "user", content |-> c] : c \in UserContents }
    \cup { [content |-> <<TextElement>>] }                     \* no role
    \cup { [role |-> "assistant"], [role |-> "user"] }         \* no content
    \cup { [role |-> "system", content |-> <<TextElement>>] }  \* another role

\* a message that comes along with another key in a combined event
ComboMessage ==
    [role |-> "assistant", content |-> <<TextElement, [toolUse |-> GoodToolUse]>>]

Events ==
    { [data |-> d] : d \in DataChunks }
    \cup { [current_tool_use |-> GoodToolUse] }
    \cup { [message |-> m] : m \in Messages }
    \cup { [init_event_loop |-> TRUE] }
    \cup { [data |-> d, message |-> ComboMessage] : d \in DataChunks }
    \cup { [data |-> d, current_tool_use |-> GoodToolUse] : d \in DataChunks }
    \cup { [current_tool_use |-> GoodToolUse, message |-> ComboMessage] }

\* str(result) of the agent's return value
ResultStrings == {"", "The answer is 4."}

(***************************************************************************)
(* Display instructions: one record per Streamlit call.                    *)
(***************************************************************************)
Write(s) == [op |-> "write", text |-> s]
Code(s) == [op |-> "code", text |-> s]
Json(v) == [op |-> "json", value |-> v]
Info(s) == [op |-> "info", body |-> s]
Success(s) == [op |-> "success", body |-> s]
Error(s) == [op |-> "error", body |-> s]
Expander(l, e, c) == [op |-> "expander", label |-> l, expanded |-> e, children |-> c]

\* dict.get(key, default)
Get(d, k, default) == IF k \in DOMAIN d THEN d[k] ELSE default

\* repr of a one-key dict of strings, as str() of a list prints it
ReprDict(d) ==
    LET k == CHOOSE x \in DOMAIN d : TRUE
    IN  "{'" \o k \o "': '" \o d[k] \o "'}"

ReprPart(p) ==
    IF "text" \in DOMAIN p
    THEN "{'text': '" \o p.text \o "'}"
    ELSE "{'json': " \o ReprDict(p.json) \o "}"

RECURSIVE JoinRepr(_, _)
JoinRepr(parts, i) ==
    IF i > Len(parts) THEN ""
    ELSE (IF i > 1 THEN ", " ELSE "") \o ReprPart(parts[i]) \o JoinRepr(parts, i + 1)

\* str(result["content"]) of a list of result parts
StrContent(parts) == "[" \o JoinRepr(parts, 1) \o "]"

\* the loop over a tool result's content parts: st.code / st.json per part
RECURSIVE ResultParts(_, _)
ResultParts(parts, i) ==
    IF i > Len(parts) THEN <<>>
    ELSE LET item == parts[i]
             shown == IF "text" \in DOMAIN item THEN <<Code(item.text)>>
                      ELSE IF "json" \in DOMAIN item THEN <<Json(item.json)>>
                      ELSE <<>>
         IN  shown \o ResultParts(parts, i + 1)

\* st.info + "Tool Input" expander of a tool call
ShowToolCall(name, input) ==
    << Info("**Tool Call:** " \o name),
       Expander("Tool Input", FALSE, <<Json(input)>>) >>

\* the real-time display of a tool result inside callback_handler
LiveToolResult(result) ==
    IF Get(result, "status", NoneVal) = "success"
    THEN LET result_content == Get(result, "content", <<>>)
         IN  <<Success("**Tool Result:** Success")>>
             \o (IF result_content # <<>>
                 THEN <<Expander("Tool Result", TRUE, ResultParts(result_content, 1))>>
                 ELSE <<>>)
    ELSE <<Error("**Tool Result:** " \o Get(result, "status", "Failed"))>>
         \o (IF "content" \in DOMAIN result
             THEN <<Expander("Error Details", TRUE, <<Code(StrContent(result.content))>>)>>
             ELSE <<>>)

(***************************************************************************)
(* callback_handler and its kwargs.  It works on the session state `st`, on *)
(* `out`, the instructions written so far into the open chat bubble, and    *)
(* yields both together with `raised`: whether a KeyError left the handler.*)
(***************************************************************************)
\* mutant: an item equal to one already in the flow is not appended again
AppendFlowNoRepeat(st, item) ==
    IF \E i \in 1..Len(st.conversation_flow) : st.conversation_flow[i] = item
    THEN st
    ELSE [st EXCEPT !.conversation_flow = Append(@, item)]

AppendFlow(st, item) ==
    [st EXCEPT !.conversation_flow = Append(@, item)]

\* the loop over an assistant message's content
RECURSIVE AssistantContent(_, _, _, _)
AssistantContent(st, out, content, i) ==
    IF i > Len(content) THEN [st |-> st, out |-> out, raised |-> FALSE]
    ELSE LET c == content[i] IN
         IF "text" \in DOMAIN c
         THEN AssistantContent(
                  AppendFlow(st, [type |-> "text", content |-> c.text]),
                  Append(out, Write(c.text)), content, i + 1)
         ELSE IF "toolUse" \in DOMAIN c
         THEN LET tool_use == c.toolUse IN
              IF ~ ({"name", "input", "toolUseId"} \subseteq DOMAIN tool_use)
              THEN [st |-> st, out |-> out, raised |-> TRUE]
              ELSE LET tool_info == [name |-> tool_use.name,
                                     input |-> tool_use.input,
                                     tool_use_id |-> tool_use.toolUseId]
                       st1 == AppendFlow(st, [type |-> "tool_call", tool |-> tool_info])
                       st2 == [st1 EXCEPT !.current_message_tools = Append(@, tool_info)]
                   IN  AssistantContent(
                           st2, out \o ShowToolCall(tool_use.name, tool_use.input),
                           content, i + 1)
         ELSE AssistantContent(st, out, content, i + 1)

\* the loop over a user message's content (tool results)
RECURSIVE UserContent(_, _, _, _)
UserContent(st, out, content, i) ==
    IF i > Len(content) THEN [st |-> st, out |-> out, raised |-> FALSE]
    ELSE LET c == content[i] IN
         IF "toolResult" \in DOMAIN c
         THEN LET result == c.toolResult
                  result_info == [status |-> Get(result, "status", NoneVal),
                                  content |-> Get(result, "content", <<>>)]
                  st1 == AppendFlow(st, [type |-> "tool_result", result |-> result_info])
                  st2 == [st1 EXCEPT !.current_message_results = Append(@, result_info)]
              IN  UserContent(st2, out \o LiveToolResult(result), content, i + 1)
         ELSE UserContent(st, out, content, i + 1)

HandleMessage(st, out, message) ==
    IF Get(message, "role", NoneVal) = "assistant" /\ "content" \in DOMAIN message
    THEN AssistantContent(st, out, message.content, 1)
    ELSE IF Get(message, "role", NoneVal) = "user" /\ "content" \in DOMAIN message
    THEN UserContent(st, out, message.content, 1)
    ELSE [st |-> st, out |-> out, raised |-> FALSE]

\* mutant: the whole-call text is assigned, not appended to
HandleDataOverwriting(st, out, data) ==
    [st |-> [st EXCEPT !.accumulated_text = @ \o data,
                       !.all_agent_text = data],
     out |-> out, raised |-> FALSE]

HandleData(st, out, data) ==
    [st |-> [st EXCEPT !.accumulated_text = @ \o data,
                       !.all_agent_text = @ \o data],
     out |-> out, raised |-> FALSE]

\* mutant: the message branch is an `if` of its own, not an `elif`
callback_handler_without_elif(st, out, kwargs) ==
    LET r == IF "data" \in DOMAIN kwargs /\ kwargs.data # ""
             THEN HandleData(st, out, kwargs.data)
             ELSE [st |-> st, out |-> out, raised |-> FALSE]
    IN  IF "message" \in DOMAIN kwargs
        THEN HandleMessage(r.st, r.out, kwargs.message)
        ELSE r

callback_handler(st, out, kwargs) ==
    IF "data" \in DOMAIN kwargs /\ kwargs.data # ""
    THEN HandleData(st, out, kwargs.data)
    ELSE IF "current_tool_use" \in DOMAIN kwargs
    THEN [st |-> st, out |-> out, raised |-> FALSE]
    ELSE IF "message" \in DOMAIN kwargs
    THEN HandleMessage(st, out, kwargs.message)
    ELSE [st |-> st, out |-> out, raised |-> FALSE]

(***************************************************************************)
(* The replay loop ("Display chat messages").                              *)
(***************************************************************************)
\* badge and "Tool Result" expander of a stored tool result
ReplayToolResult(result) ==
    << IF result.status = "success"
       THEN Success("**Tool Result:** Success")
       ELSE Error("**Tool Result:** " \o result.status),
       Expander("Tool Result", FALSE, ResultParts(Get(result, "content", <<>>), 1)) >>

RECURSIVE ReplayFlow(_, _)
ReplayFlow(flow, i) ==
    IF i > Len(flow) THEN <<>>
    ELSE LET flow_item == flow[i]
             shown == IF flow_item.type = "text" THEN <<Write(flow_item.content)>>
                      ELSE IF flow_item.type = "tool_call"
                      THEN ShowToolCall(flow_item.tool.name, flow_item.tool.input)
                      ELSE IF flow_item.type = "tool_result"
                      THEN ReplayToolResult(flow_item.result)
                      ELSE <<>>
         IN  shown \o ReplayFlow(flow, i + 1)

RECURSIVE ReplayTools(_, _)
ReplayTools(tools, i) ==
    IF i > Len(tools) THEN <<>>
    ELSE ShowToolCall(tools[i].name, tools[i].input) \o ReplayTools(tools, i + 1)

RECURSIVE ReplayResults(_, _)
ReplayResults(results, i) ==
    IF i > Len(results) THEN <<>>
    ELSE ReplayToolResult(results[i]) \o ReplayResults(results, i + 1)

\* what the loop body writes inside the chat bubble of one stored message
Render(message) ==
    IF message.role = "assistant" /\ "conversation_flow" \in DOMAIN message
    THEN ReplayFlow(message.conversation_flow, 1)
    ELSE (IF message.content # "" THEN <<Write(message.content)>> ELSE <<>>)
         \o (IF message.role = "assistant"
             THEN (IF "tools" \in DOMAIN message
                   THEN ReplayTools(message.tools, 1) ELSE <<>>)
                  \o (IF "results" \in DOMAIN message
                      THEN ReplayResults(message.results, 1) ELSE <<>>)
             ELSE <<>>)

\* the whole loop: one chat bubble per stored message
RenderAll(messages) ==
    [i \in 1..Len(messages) |->
        [role |-> messages[i].role, children |-> Render(messages[i])]]

(***************************************************************************)
(* The chat-input handler, in the pieces around the blocking agent call.   *)
(***************************************************************************)
Prompts == {"What is 2+2?"}

\* the session state right after the first script run's initialisation
NewSession ==
    [messages |-> <<>>,
     file_uploader_key |-> 0,
     accumulated_text |-> "",
     current_message_tools |-> <<>>,
     current_message_results |-> <<>>,
     current_message_accumulated |-> "",
     all_agent_text |-> "",
     conversation_flow |-> <<>>]

\* mutant: the reset forgets the flow log
ResetBuffersKeepingFlow(st) ==
    [st EXCEPT !.accumulated_text = "",
               !.current_message_tools = <<>>,
               !.current_message_results = <<>>,
               !.current_message_accumulated = "",
               !.all_agent_text = ""]

\* "Reset current message tracking"
ResetBuffers(st) ==
    [st EXCEPT !.accumulated_text = "",
               !.current_message_tools = <<>>,
               !.current_message_results = <<>>,
               !.current_message_accumulated = "",
               !.all_agent_text = "",
               !.conversation_flow = <<>>]

\* mutant: the turn is inserted at the head of the transcript
StoreTurnAtFront(transcript, turn) == <<turn>> \o transcript

\* list.append on the transcript
StoreTurn(transcript, turn) == Append(transcript, turn)

\* mutant: the buffers are not reset before the agent call
BeginSubmissionWithoutReset(st, prompt) ==
    [st EXCEPT !.messages = Append(@, [role |-> "user", content |-> prompt])]

\* from the prompt to the agent call: store the user turn, reset the buffers
BeginSubmission(st, prompt) ==
    ResetBuffers([st EXCEPT !.messages =
                     StoreTurn(@, [role |-> "user", content |-> prompt])])

\* message_data, with "tools" / "results" only when the lists are non-empty
MessageData(st, str_result) ==
    LET content == IF st.all_agent_text # "" THEN st.all_agent_text ELSE str_result
        flow == st.conversation_flow
        tools == st.current_message_tools
        results == st.current_message_results
    IN  IF tools # <<>> /\ results # <<>>
        THEN [role |-> "assistant", content |-> content, conversation_flow |-> flow,
              tools |-> tools, results |-> results]
        ELSE IF tools # <<>>
        THEN [role |-> "assistant", content |-> content, conversation_flow |-> flow,
              tools |-> tools]
        ELSE IF results # <<>>
        THEN [role |-> "assistant", content |-> content, conversation_flow |-> flow,
              results |-> results]
        ELSE [role |-> "assistant", content |-> content, conversation_flow |-> flow]

\* after the agent returned: store the assistant turn
Finalize(st, str_result) ==
    [st EXCEPT !.messages = StoreTurn(@, MessageData(st, str_result))]

\* "Display any remaining accumulated text as final thoughts"
FinalThoughts(st) ==
    IF st.accumulated_text # "" THEN <<Write(st.accumulated_text)>> ELSE <<>>

(***************************************************************************)
(* What an observer of the event stream expects, stated without the        *)
(* handler: the flow items one event announces.                            *)
(***************************************************************************)
\* the event is handled as a completed structured message
IsMessageEvent(kwargs) ==
    /\ ~ ("data" \in DOMAIN kwargs /\ kwargs.data # "")
    /\ "current_tool_use" \notin DOMAIN kwargs
    /\ "message" \in DOMAIN kwargs

\* a toolUse element (carrying no text) that lacks one of its three fields
IsBrokenToolUse(c) ==
    /\ "text" \notin DOMAIN c
    /\ "toolUse" \in DOMAIN c
    /\ ~ ({"name", "input", "toolUseId"} \subseteq DOMAIN c.toolUse)

\* the elements of a content list the handler gets to: all before the first broken one
Reached(content) ==
    LET broken == { i \in 1..Len(content) : IsBrokenToolUse(content[i]) }
    IN  IF broken = {} THEN content
        ELSE SubSeq(content, 1, (CHOOSE i \in broken : \A j \in broken : i <= j) - 1)

ItemOfAssistant(c) ==
    IF "text" \in DOMAIN c
    THEN [type |-> "text", content |-> c.text]
    ELSE [type |-> "tool_call",
          tool |-> [name |-> c.toolUse.name, input |-> c.toolUse.input,
                    tool_use_id |-> c.toolUse.toolUseId]]

ItemOfUser(c) ==
    [type |-> "tool_result",
     result |-> [status |-> IF "status" \in DOMAIN c.toolResult
                            THEN c.toolResult.status ELSE NoneVal,
                 content |-> IF "content" \in DOMAIN c.toolResult
                             THEN c.toolResult.content ELSE <<>>]]

IsAssistantItem(c) == "text" \in DOMAIN c \/ "toolUse" \in DOMAIN c
IsUserItem(c) == "toolResult" \in DOMAIN c

ArrivedItems(kwargs) ==
    IF ~ IsMessageEvent(kwargs) \/ "content" \notin DOMAIN kwargs.message
       \/ "role" \notin DOMAIN kwargs.message
    THEN <<>>
    ELSE IF kwargs.message.role = "assistant"
    THEN LET rec == SelectSeq(Reached(kwargs.message.content), IsAssistantItem)
         IN  [i \in 1..Len(rec) |-> ItemOfAssistant(rec[i])]
    ELSE IF kwargs.message.role = "user"
    THEN LET rec == SelectSeq(kwargs.message.content, IsUserItem)
         IN  [i \in 1..Len(rec) |-> ItemOfUser(rec[i])]
    ELSE <<>>

(***************************************************************************)
(* The session.                                                            *)
(***************************************************************************)
Init ==
    /\ session_state = NewSession
    /\ pc = "idle"
    /\ bubble = <<>>
    /\ screen = <<>>
    /\ hist = [nEvents |-> 0,          \* callbacks delivered in the session
               nSubmits |-> 0,         \* submissions in the session
               outcome |-> "none",     \* how the last finished run ended
               prev |-> "none",        \* outcome before the current submission began
               delivered |-> 0,        \* callbacks of the current invocation
               keys |-> {},            \* the keys of the last event delivered
               data |-> "",            \* and its "data", if it has one
               raised |-> FALSE,       \* the last callback left by an exception
               arrived |-> <<>>,       \* flow items announced in this invocation
               chunks |-> "",          \* every "data" value of this invocation, joined
               nChunks |-> 0,          \* how many events carried "data"
               str_result |-> "",      \* str(result) of the last return
               stored |-> 0,           \* successful returns since the last clear
               fresh |-> NewSession]   \* the same submission in a brand-new session

\* a script run with a prompt in the chat input, up to the agent call
Submit(prompt) ==
    /\ pc = "idle"
    /\ hist.nSubmits < MaxSubmits
    /\ screen' = RenderAll(session_state.messages)
    /\ session_state' = BeginSubmission(session_state, prompt)
    /\ bubble' = <<>>
    /\ pc' = "agent"
    /\ hist' = [hist EXCEPT !.nSubmits = @ + 1,
                            !.prev = hist.outcome,
                            !.delivered = 0,
                            !.keys = {},
                            !.data = "",
                            !.raised = FALSE,
                            !.arrived = <<>>,
                            !.chunks = "",
                            !.nChunks = 0,
                            !.fresh = BeginSubmission(NewSession, prompt)]

\* the agent calls callback_handler(**kwargs) during the blocking call
Callback(kwargs) ==
    /\ pc = "agent"
    /\ hist.nEvents < MaxEvents
    /\ LET r == callback_handler(session_state, bubble, kwargs)
       IN  /\ session_state' = r.st
           /\ bubble' = r.out
           /\ hist' = [hist EXCEPT
                  !.nEvents = @ + 1,
                  !.delivered = @ + 1,
                  !.keys = DOMAIN kwargs,
                  !.data = IF "data" \in DOMAIN kwargs THEN kwargs.data ELSE "",
                  !.raised = r.raised,
                  !.arrived = @ \o ArrivedItems(kwargs),
                  !.chunks = IF "data" \in DOMAIN kwargs THEN @ \o kwargs.data ELSE @,
                  !.nChunks = IF "data" \in DOMAIN kwargs THEN @ + 1 ELSE @,
                  !.fresh = callback_handler(@, <<>>, kwargs).st]
    /\ UNCHANGED <<pc, screen>>

\* the agent returns: final thoughts, the turn is stored, st.rerun() replays
AgentReturn(str_result) ==
    /\ pc = "agent"
    /\ bubble' = bubble \o FinalThoughts(session_state)
    /\ session_state' = Finalize(session_state, str_result)
    /\ screen' = RenderAll(session_state'.messages)
    /\ pc' = "idle"
    /\ hist' = [hist EXCEPT !.outcome = "ok",
                            !.str_result = str_result,
                            !.stored = @ + 1,
                            !.fresh = Finalize(@, str_result)]

\* mutant: the failure is swallowed and the turn is stored all the same
AgentRaiseStoringTurn ==
    /\ pc = "agent"
    /\ pc' = "idle"
    /\ session_state' = Finalize(session_state, "")
    /\ hist' = [hist EXCEPT !.outcome = "failed"]
    /\ UNCHANGED <<bubble, screen>>

\* the agent call raises: the exception ends the script run
AgentRaise ==
    /\ pc = "agent"
    /\ pc' = "idle"
    /\ hist' = [hist EXCEPT !.outcome = "failed"]
    /\ UNCHANGED <<session_state, bubble, screen>>

\* the "Clear Chat History" button, and the replay of its st.rerun()
ClearChat ==
    /\ pc = "idle"
    /\ session_state' = [session_state EXCEPT !.messages = <<>>]
    /\ screen' = RenderAll(session_state'.messages)
    /\ hist' = [hist EXCEPT !.outcome = "cleared", !.stored = 0]
    /\ UNCHANGED <<pc, bubble>>

\* any other script run (another widget changed): the transcript is replayed
Rerun ==
    /\ pc = "idle"
    /\ screen' = RenderAll(session_state.messages)
    /\ UNCHANGED <<session_state, pc, bubble, hist>>

Next ==
    \/ \E prompt \in Prompts : Submit(prompt)
    \/ \E kwargs \in Events : Callback(kwargs)
    \/ \E str_result \in ResultStrings : AgentReturn(str_result)
    \/ AgentRaise
    \/ ClearChat
    \/ Rerun

Spec == Init /\ [][Next]_vars

(***************************************************************************)
(* Views used by the properties.                                           *)
(***************************************************************************)
messages == session_state.messages

Last(seq) == seq[Len(seq)]

IsPrefix(s, t) == Len(s) <= Len(t) /\ SubSeq(t, 1, Len(s)) = s

IsToolCall(item) == item.type = "tool_call"
IsToolResult(item) == item.type = "tool_result"

\* the flow filtered to its tool calls / tool results, order kept
ToolCallsOf(flow) ==
    LET f == SelectSeq(flow, IsToolCall) IN [i \in 1..Len(f) |-> f[i].tool]
ToolResultsOf(flow) ==
    LET f == SelectSeq(flow, IsToolResult) IN [i \in 1..Len(f) |-> f[i].result]

BuffersEmpty(st) ==
    /\ st.accumulated_text = ""
    /\ st.all_agent_text = ""
    /\ st.current_message_accumulated = ""
    /\ st.conversation_flow = <<>>
    /\ st.current_message_tools = <<>>
    /\ st.current_message_results = <<>>

\* the run that just ended stored an assistant turn
JustStored == pc = "idle" /\ hist.outcome = "ok"

\* the text / tool-call / tool-result items a sequence of display instructions
\* shows: a write is a text item, an info badge a tool call, a success or error
\* badge a tool result; expanders belong to the badge before them
RECURSIVE ShownItems(_, _)
ShownItems(instrs, i) ==
    IF i > Len(instrs) THEN <<>>
    ELSE LET x == instrs[i]
             item == IF x.op = "write" THEN <<[type |-> "text", content |-> x.text]>>
                     ELSE IF x.op = "info" THEN <<[type |-> "tool_call", badge |-> x.body]>>
                     ELSE IF x.op = "success" THEN <<[type |-> "tool_result", ok |-> TRUE]>>
                     ELSE IF x.op = "error" THEN <<[type |-> "tool_result", ok |-> FALSE]>>
                     ELSE <<>>
         IN  item \o ShownItems(instrs, i + 1)

\* the same view of a stored flow
ItemsOfFlow(flow) ==
    [i \in 1..Len(flow) |->
        IF flow[i].type = "text" THEN [type |-> "text", content |-> flow[i].content]
        ELSE IF flow[i].type = "tool_call"
        THEN [type |-> "tool_call", badge |-> "**Tool Call:** " \o flow[i].tool.name]
        ELSE [type |-> "tool_result", ok |-> (flow[i].result.status = "success")]]

(***************************************************************************)
(* Properties.                                                             *)
(***************************************************************************)

\* C1: the flow log holds, in arrival order (and content-element order within
\* a message), exactly the items the delivered events announced, nothing
\* reordered or dropped as a duplicate; the tool-call and tool-result lists
\* are at all times the flow filtered to their type, in the same order; and
\* the stored turn carries the same three sequences.
C1_FlowInArrivalOrder ==
    /\ session_state.conversation_flow = hist.arrived
    /\ session_state.current_message_tools
           = ToolCallsOf(session_state.conversation_flow)
    /\ session_state.current_message_results
           = ToolResultsOf(session_state.conversation_flow)
    /\ JustStored =>
           /\ Last(messages).conversation_flow = hist.arrived
           /\ Get(Last(messages), "tools", <<>>) = ToolCallsOf(hist.arrived)
           /\ Get(Last(messages), "results", <<>>) = ToolResultsOf(hist.arrived)

\* two events were delivered, and the flow interleaves text, a tool call and
\* tool results
C1_Witness ==
    /\ pc = "agent"
    /\ hist.delivered = 2
    /\ Len(session_state.conversation_flow) >= 4
    /\ session_state.current_message_tools # <<>>
    /\ Len(session_state.current_message_results) = 2

\* C2 as stated: the stored content is the concatenation of every "data" chunk
\* received, and str(result) when no chunk was received.
C2_ContentIsChunksOrResult ==
    JustStored =>
        Last(messages).content
            = IF hist.nChunks > 0 THEN hist.chunks ELSE hist.str_result

\* C2 amended: the stored content is the concatenation of the "data" chunks
\* received when that concatenation is non-empty, and str(result) when it is
\* empty (no chunk, or only empty chunks).
C2_ContentIsTextOrResult ==
    JustStored =>
        Last(messages).content
            = IF hist.chunks # "" THEN hist.chunks ELSE hist.str_result

\* a turn stored after two chunks
C2_Witness ==
    /\ JustStored
    /\ hist.nChunks = 2
    /\ Last(messages).content = "Let me check that."

\* C3 as stated: no callback is left by an exception.
C3_HandlerNeverRaises == ~ hist.raised

\* C4: after the agent call raised, the transcript ends with the user turn of
\* that submission and holds one assistant turn per successful return, no
\* more; and the turn stored by the first successful submission after a
\* failure is the one a brand-new session would store for the same events.
C4_NoPartialTurn ==
    /\ Cardinality({ i \in 1..Len(messages) : messages[i].role = "assistant" })
           = hist.stored
    /\ (pc = "idle" /\ hist.outcome = "failed") =>
           /\ messages # <<>>
           /\ Last(messages).role = "user"
    /\ (JustStored /\ hist.prev = "failed") =>
           Last(messages) = Last(hist.fresh.messages)

\* the agent call raised with all buffers partly filled
C4_Witness ==
    /\ pc = "idle"
    /\ hist.outcome = "failed"
    /\ session_state.all_agent_text # ""
    /\ session_state.conversation_flow # <<>>
    /\ Last(messages).role = "user"

\* C5: every step leaves the transcript as a prefix of the new one, or leaves
\* the new one empty.
C5_TranscriptAppendOnly ==
    [][IsPrefix(messages, messages') \/ messages' = <<>>]_vars

\* a turn with a flow is stored while the buffers are refilled for a later turn
C5_Witness ==
    /\ pc = "agent"
    /\ Len(messages) = 3
    /\ messages[2].conversation_flow # <<>>
    /\ session_state.conversation_flow # <<>>
    /\ session_state.conversation_flow # messages[2].conversation_flow

\* C6 as stated: a stored assistant turn with an empty flow replays as its
\* text (when it has any), then its tool calls, then its tool results; one
\* with a non-empty flow replays as one group per flow item, in flow order.
C6_ReplayOfStoredTurn ==
    \A i \in 1..Len(messages) :
        messages[i].role = "assistant" =>
            LET m == messages[i]
                flow == Get(m, "conversation_flow", <<>>)
            IN  IF flow = <<>>
                THEN Render(m) = (IF m.content # "" THEN <<Write(m.content)>> ELSE <<>>)
                                 \o ReplayTools(Get(m, "tools", <<>>), 1)
                                 \o ReplayResults(Get(m, "results", <<>>), 1)
                ELSE ShownItems(Render(m), 1) = ItemsOfFlow(flow)

\* C7: right after the clear the transcript (and its replay) is empty,
\* whatever it held; and when the next submission after a clear succeeds, the
\* transcript is the one a brand-new session has after the same submission.
C7_ClearThenFreshTurn ==
    /\ (pc = "idle" /\ hist.outcome = "cleared") =>
           /\ messages = <<>>
           /\ screen = <<>>
    /\ (JustStored /\ hist.prev = "cleared") =>
           messages = hist.fresh.messages

\* a turn was stored by a submission that followed a clear and collected items
C7_Witness ==
    /\ JustStored
    /\ hist.prev = "cleared"
    /\ hist.nEvents = 2
    /\ hist.delivered = 1
    /\ Last(messages).conversation_flow # <<>>

\* a step in which the agent delivered one event
CallbackStep ==
    /\ pc = "agent"
    /\ pc' = "agent"
    /\ hist'.nEvents = hist.nEvents + 1

TextAppended(d) ==
    session_state' = [session_state EXCEPT !.accumulated_text = @ \o d,
                                           !.all_agent_text = @ \o d]

\* C8 as stated: an event with a "data" key only appends the data to the two
\* text buffers, whatever else it carries; an event with "current_tool_use"
\* and no "data" changes nothing; an event with none of the three keys
\* changes nothing.
C8_DispatchByKey ==
    [][CallbackStep =>
          /\ "data" \in hist'.keys => TextAppended(hist'.data)
          /\ ("current_tool_use" \in hist'.keys /\ "data" \notin hist'.keys) =>
                 session_state' = session_state
          /\ hist'.keys \cap {"data", "current_tool_use", "message"} = {} =>
                 session_state' = session_state]_vars

\* C8 amended: as stated, for a non-empty text delta; an event whose "data" is
\* empty is dispatched as if it had no "data" key.
C8_DispatchByNonEmptyData ==
    [][CallbackStep =>
          LET text == "data" \in hist'.keys /\ hist'.data # ""
          IN  /\ text => (TextAppended(hist'.data) /\ bubble' = bubble)
              /\ (~ text /\ "current_tool_use" \in hist'.keys) =>
                     (session_state' = session_state /\ bubble' = bubble)
              /\ (~ text /\ hist'.keys \cap {"current_tool_use", "message"} = {}) =>
                     (session_state' = session_state /\ bubble' = bubble)]_vars

\* an event with a text delta and a message was delivered: no flow item
C8_Witness ==
    /\ pc = "agent"
    /\ hist.keys = {"data", "message"}
    /\ hist.data = "that."
    /\ session_state.all_agent_text = "that."
    /\ session_state.conversation_flow = <<>>

\* C9: when the agent is invoked (no event delivered yet) every per-turn
\* buffer is empty, however the previous run ended; and a stored assistant
\* turn is the one a brand-new session would store for the same events.
C9_BuffersEmptyAtInvocation ==
    /\ (pc = "agent" /\ hist.delivered = 0) => BuffersEmpty(session_state)
    /\ JustStored => Last(messages) = Last(hist.fresh.messages)

\* the agent is invoked after a submission that failed with events delivered
C9_Witness ==
    /\ pc = "agent"
    /\ hist.delivered = 0
    /\ hist.outcome = "failed"
    /\ hist.nEvents = 2
    /\ BuffersEmpty(session_state)

\* C10 as stated: the items shown live in the assistant bubble of a successful
\* submission are the items the replay of the stored turn shows.
C10_LiveEqualsReplay ==
    JustStored =>
        ShownItems(bubble, 1) = ShownItems(Render(Last(messages)), 1)

====
